---- MODULE Spec2Model ----
(***************************************************************************)
(* The dataset session of icechunk (src/src/dataset.rs): a change set      *)
(* overlaid on a base snapshot, node id allocation, chunk resolution and   *)
(* the flush that writes a new manifest table and a new structure table.   *)
(*                                                                         *)
(* Option<T> is a sequence of length at most one: None is << >> and        *)
(* Some(v) is <<v>>.  A HashMap is a function on a finite domain.  Tables  *)
(* are sequences of rows; a TableRegion (start, end) names the 0-based     *)
(* half-open row range, i.e. the rows start+1 .. end of the sequence.      *)
(***************************************************************************)
EXTENDS Integers, Sequences, FiniteSets, TLC

VARIABLES storage, pc, structure_id, last_node_id, change_set,
          inflight, openedOn, issued, dropped, last, nOps, nFlush, nFaults

vars == <<storage, pc, structure_id, last_node_id, change_set,
          inflight, openedOn, issued, dropped, last, nOps, nFlush, nFaults>>

(***************************************************************************)
(* Bounds of the model.                                                    *)
(***************************************************************************)
\* mutation calls (add_*, update_array, set_*) made over all sessions
MaxOps == 2
\* flush calls, over all sessions, that are not dropped by their caller
MaxFlush == 2
\* calls, over all sessions, that are disturbed: a storage operation of the call
\* fails, or the caller drops the call's future
MaxFaults == 1

Sessions == {"A", "B"}
Paths == {"/a", "/b"}
Coords == {0, 1, 2}
NewPayloads == {"x"}
NewMetas == {"m1", "m2"}
NewAttrs == {"u"}

None == << >>
Some(v) == <<v>>
IsSome(o) == Len(o) = 1
Unwrap(o) == o[1]
\* Option::unwrap_or
UnwrapOr(o, d) == IF IsSome(o) THEN o[1] ELSE d
\* Option::or
OrElse(o, d) == IF IsSome(o) THEN o ELSE d
\* HashMap::get
MapGet(m, k) == IF k \in DOMAIN m THEN Some(m[k]) ELSE None
\* HashMap::insert
MapInsert(m, k, v) == [x \in DOMAIN m \cup {k} |-> IF x = k THEN v ELSE m[x]]
EmptyMap == [x \in {} |-> 0]

\* the maximum of a non-empty finite set of naturals
Max(S) == CHOOSE m \in S : \A x \in S : x <= m
\* the orders in which a HashMap may iterate over the key set S
Perms(S) ==
    {f \in [1 .. Cardinality(S) -> S] : \A i, j \in DOMAIN f : f[i] = f[j] => i = j}
RECURSIVE Flatten(_)
Flatten(ss) == IF ss = << >> THEN << >> ELSE Head(ss) \o Flatten(Tail(ss))
Range(sq) == {sq[i] : i \in DOMAIN sq}

(***************************************************************************)
(* Data model.                                                             *)
(***************************************************************************)
Inline(a) == <<"Inline", a>>
GroupData == [kind |-> "Group"]
ArrayData(meta, manifests) == [kind |-> "Array", meta |-> meta, manifests |-> manifests]
NodeStructure(id, path, atts, data) ==
    [id |-> id, path |-> path, user_attributes |-> atts, node_data |-> data]
ManifestRef(oid, start, end) ==
    [object_id |-> oid, location |-> <<start, end>>, extents |-> << >>]
ChunkInfo(node, coord, payload) == [node |-> node, coord |-> coord, payload |-> payload]

ChangeSetDefault ==
    [new_groups |-> EmptyMap, new_arrays |-> EmptyMap, updated_arrays |-> EmptyMap,
     updated_attributes |-> EmptyMap, set_chunks |-> EmptyMap]

(***************************************************************************)
(* ChangeSet.                                                              *)
(***************************************************************************)
CsAddGroup(cs, path, node_id) ==
    [cs EXCEPT !.new_groups = MapInsert(@, path, node_id)]
CsGetGroup(cs, path) == MapGet(cs.new_groups, path)
CsAddArray(cs, path, node_id, metadata) ==
    [cs EXCEPT !.new_arrays = MapInsert(@, path, [id |-> node_id, meta |-> metadata])]
CsGetArray(cs, path) == MapGet(cs.new_arrays, path)
CsUpdateArray(cs, path, metadata) ==
    [cs EXCEPT !.updated_arrays = MapInsert(@, path, metadata)]
CsGetUpdatedZarrMetadata(cs, path) == MapGet(cs.updated_arrays, path)
CsUpdateUserAttributes(cs, path, atts) ==
    [cs EXCEPT !.updated_attributes = MapInsert(@, path, atts)]
CsGetUserAttributes(cs, path) == MapGet(cs.updated_attributes, path)
CsSetChunk(cs, path, coord, data) ==
    [cs EXCEPT !.set_chunks =
        IF path \in DOMAIN @
        THEN MapInsert(@, path, MapInsert(@[path], coord, data))
        ELSE MapInsert(@, path, MapInsert(EmptyMap, coord, data))]
\* Option<&Option<ChunkPayload>>: None when the overlay has no entry
CsGetChunkRef(cs, path, coords) ==
    IF path \in DOMAIN cs.set_chunks THEN MapGet(cs.set_chunks[path], coords) ELSE None

(***************************************************************************)
(* Structure table, manifest table and Storage: their logical interfaces.  *)
(***************************************************************************)
\* mk_structure_table and mk_manifests_table keep the order of their input
MkStructureTable(nodes) == nodes
MkManifestsTable(chunks) == chunks
\* StructureTable::get_node: the first row with that path
StructureGetNode(table, path) ==
    LET hits == {i \in DOMAIN table : table[i].path = path}
    IN  IF hits = {} THEN None ELSE Some(table[CHOOSE i \in hits : \A j \in hits : i <= j])
\* ManifestsTable::iter(Some(start), Some(end)): the rows of the region, in stored order
ManifestIter(table, start, end) ==
    LET hi == IF end <= Len(table) THEN end ELSE Len(table)
    IN  IF start < hi THEN SubSeq(table, start + 1, hi) ELSE << >>
\* ManifestsTable::get_chunk_info: the first row of the region with these coordinates
ManifestGetChunkInfo(table, coords, location) ==
    LET region == ManifestIter(table, location[1], location[2])
        hits == {i \in DOMAIN region : region[i].coord = coords}
    IN  IF hits = {} THEN None ELSE Some(region[CHOOSE i \in hits : \A j \in hits : i <= j])
\* Storage::fetch_structure(id).ok(): ok is whether the storage answers
FetchStructure(st, id, ok) ==
    IF ok /\ id \in DOMAIN st.structures THEN Some(st.structures[id]) ELSE None
\* Storage::fetch_manifests(id).ok()
FetchManifests(st, id, ok) ==
    IF ok /\ id \in DOMAIN st.manifests THEN Some(st.manifests[id]) ELSE None
WriteManifests(st, id, table) == [st EXCEPT !.manifests = MapInsert(@, id, table)]
WriteStructure(st, id, table) == [st EXCEPT !.structures = MapInsert(@, id, table)]

(***************************************************************************)
(* Dataset: the read view.  sid is the session's structure_id, cs its      *)
(* change set, ok whether the storage reads of the call succeed.           *)
(***************************************************************************)
\* get_existing_node building the array of an updated node without its manifests
GetExistingNodeDroppingManifests(st, sid, cs, path, ok) ==
    IF ~IsSome(sid) THEN None
    ELSE LET structure == FetchStructure(st, Unwrap(sid), ok)
         IN  IF ~IsSome(structure) THEN None
             ELSE LET atts == CsGetUserAttributes(cs, path)
                      session_atts ==
                          IF IsSome(atts)
                          THEN Some(IF IsSome(Unwrap(atts))
                                    THEN Some(Inline(Unwrap(Unwrap(atts))))
                                    ELSE None)
                          ELSE None
                      found == StructureGetNode(Unwrap(structure), path)
                  IN  IF ~IsSome(found) THEN None
                      ELSE LET res == [Unwrap(found) EXCEPT
                                          !.user_attributes = UnwrapOr(session_atts, @)]
                               session_meta == CsGetUpdatedZarrMetadata(cs, path)
                           IN  IF IsSome(session_meta) /\ res.node_data.kind = "Array"
                               THEN Some([res EXCEPT !.node_data =
                                            ArrayData(Unwrap(session_meta), << >>)])
                               ELSE Some(res)
\* get_existing_node flattening the overlay's attributes: a None falls back to the base
GetExistingNodeFlatteningAtts(st, sid, cs, path, ok) ==
    IF ~IsSome(sid) THEN None
    ELSE LET structure == FetchStructure(st, Unwrap(sid), ok)
         IN  IF ~IsSome(structure) THEN None
             ELSE LET atts == CsGetUserAttributes(cs, path)
                      session_atts ==
                          IF IsSome(atts)
                             /\ IsSome(Unwrap(atts))
                          THEN Some(Some(Inline(Unwrap(Unwrap(atts)))))
                          ELSE None
                      found == StructureGetNode(Unwrap(structure), path)
                  IN  IF ~IsSome(found) THEN None
                      ELSE LET res == [Unwrap(found) EXCEPT
                                          !.user_attributes = UnwrapOr(session_atts, @)]
                               session_meta == CsGetUpdatedZarrMetadata(cs, path)
                           IN  IF IsSome(session_meta) /\ res.node_data.kind = "Array"
                               THEN Some([res EXCEPT !.node_data =
                                            ArrayData(Unwrap(session_meta), @.manifests)])
                               ELSE Some(res)
GetExistingNode(st, sid, cs, path, ok) ==
    IF ~IsSome(sid) THEN None
    ELSE LET structure == FetchStructure(st, Unwrap(sid), ok)
         IN  IF ~IsSome(structure) THEN None
             ELSE LET atts == CsGetUserAttributes(cs, path)
                      session_atts ==
                          IF IsSome(atts)
                          THEN Some(IF IsSome(Unwrap(atts))
                                    THEN Some(Inline(Unwrap(Unwrap(atts))))
                                    ELSE None)
                          ELSE None
                      found == StructureGetNode(Unwrap(structure), path)
                  IN  IF ~IsSome(found) THEN None
                      ELSE LET res == [Unwrap(found) EXCEPT
                                          !.user_attributes = UnwrapOr(session_atts, @)]
                               session_meta == CsGetUpdatedZarrMetadata(cs, path)
                           IN  IF IsSome(session_meta) /\ res.node_data.kind = "Array"
                               THEN Some([res EXCEPT !.node_data =
                                            ArrayData(Unwrap(session_meta), @.manifests)])
                               ELSE Some(res)

\* atts.flatten().map(Inline) of the overlay's Option<Option<UserAttributes>>
OverlayAtts(cs, path) ==
    LET atts == CsGetUserAttributes(cs, path)
    IN  IF IsSome(atts) /\ IsSome(Unwrap(atts))
        THEN Some(Inline(Unwrap(Unwrap(atts))))
        ELSE None

GetNewArray(cs, path) ==
    LET a == CsGetArray(cs, path)
    IN  IF ~IsSome(a) THEN None
        ELSE LET meta == UnwrapOr(CsGetUpdatedZarrMetadata(cs, path), Unwrap(a).meta)
             IN  Some(NodeStructure(Unwrap(a).id, path, OverlayAtts(cs, path),
                                    ArrayData(meta, << >>)))

GetNewGroup(cs, path) ==
    LET g == CsGetGroup(cs, path)
    IN  IF ~IsSome(g) THEN None
        ELSE Some(NodeStructure(Unwrap(g), path, OverlayAtts(cs, path), GroupData))

GetNewNode(cs, path) == OrElse(GetNewArray(cs, path), GetNewGroup(cs, path))

GetNode(st, sid, cs, path, ok) ==
    OrElse(GetNewNode(cs, path), GetExistingNode(st, sid, cs, path, ok))

\* get_old_chunk letting a later manifest reference override an earlier hit
RECURSIVE GetOldChunkLastHit(_, _, _, _)
GetOldChunkLastHit(st, manifests, coords, ok) ==
    IF manifests = << >> THEN None
    ELSE LET manifest == Head(manifests)
             manifest_structure == FetchManifests(st, manifest.object_id, ok)
         IN  IF ~IsSome(manifest_structure) THEN None
             ELSE LET info == ManifestGetChunkInfo(Unwrap(manifest_structure), coords,
                                                   manifest.location)
                      later == GetOldChunkLastHit(st, Tail(manifests), coords, ok)
                  IN  IF IsSome(later) THEN later
                      ELSE IF IsSome(info) THEN Some(Unwrap(info).payload)
                      ELSE None
RECURSIVE GetOldChunk(_, _, _, _)
GetOldChunk(st, manifests, coords, ok) ==
    IF manifests = << >> THEN None
    ELSE LET manifest == Head(manifests)
             manifest_structure == FetchManifests(st, manifest.object_id, ok)
         IN  IF ~IsSome(manifest_structure) THEN None
             ELSE LET info == ManifestGetChunkInfo(Unwrap(manifest_structure), coords,
                                                   manifest.location)
                  IN  IF IsSome(info) THEN Some(Unwrap(info).payload)
                      ELSE GetOldChunk(st, Tail(manifests), coords, ok)

\* get_chunk_ref asking the base manifests before the overlay
GetChunkRefBaseFirst(st, sid, cs, path, coords, ok) ==
    LET node == GetNode(st, sid, cs, path, ok)
    IN  IF ~IsSome(node) THEN None
        ELSE IF Unwrap(node).node_data.kind = "Group" THEN None
        ELSE LET session_chunk == CsGetChunkRef(cs, path, coords)
                 old_chunk == GetOldChunk(st, Unwrap(node).node_data.manifests, coords, ok)
             IN  IF IsSome(old_chunk) THEN old_chunk
                 ELSE UnwrapOr(session_chunk, None)
GetChunkRef(st, sid, cs, path, coords, ok) ==
    LET node == GetNode(st, sid, cs, path, ok)
    IN  IF ~IsSome(node) THEN None
        ELSE IF Unwrap(node).node_data.kind = "Group" THEN None
        ELSE LET session_chunk == CsGetChunkRef(cs, path, coords)
             IN  UnwrapOr(session_chunk,
                          GetOldChunk(st, Unwrap(node).node_data.manifests, coords, ok))

(***************************************************************************)
(* TableRegionTracker.                                                     *)
(***************************************************************************)
TrackerDefault == [regions |-> EmptyMap, next |-> 0]
\* update taking the number of the chunk for the end of a region already open
TrackerUpdateInclusiveEnd(tr, chunk) ==
    [regions |->
        IF chunk.node \in DOMAIN tr.regions
        THEN [tr.regions EXCEPT ![chunk.node] = <<@[1], tr.next>>]
        ELSE MapInsert(tr.regions, chunk.node, <<tr.next, tr.next + 1>>),
     next |-> tr.next + 1]
TrackerUpdate(tr, chunk) ==
    [regions |->
        IF chunk.node \in DOMAIN tr.regions
        THEN [tr.regions EXCEPT ![chunk.node] = <<@[1], tr.next + 1>>]
        ELSE MapInsert(tr.regions, chunk.node, <<tr.next, tr.next + 1>>),
     next |-> tr.next + 1]
TrackerRegion(tr, node) == MapGet(tr.regions, node)
\* the tracker after the chunks of the stream went through it, in order
RECURSIVE TrackAll(_, _)
TrackAll(tr, chunks) ==
    IF chunks = << >> THEN tr ELSE TrackAll(TrackerUpdate(tr, Head(chunks)), Tail(chunks))

(***************************************************************************)
(* Flush: the chunk stream.  A HashMap iterates in an order of its own;    *)
(* ord.chunks[path], ord.arrays and ord.groups are the orders in which     *)
(* set_chunks[path], new_arrays and new_groups iterate during this flush.  *)
(***************************************************************************)
HashOrders(cs) ==
    {[groups |-> g, arrays |-> a, chunks |-> c] :
        g \in Perms(DOMAIN cs.new_groups),
        a \in Perms(DOMAIN cs.new_arrays),
        c \in {f \in [DOMAIN cs.set_chunks -> UNION {Perms(S) : S \in SUBSET Coords}] :
                  \A q \in DOMAIN f : f[q] \in Perms(DOMAIN cs.set_chunks[q])}}

\* ChangeSet::array_chunks_iterator: pairs <<coord, Option<payload>>>
ArrayChunksIterator(cs, path, ord) ==
    IF path \notin DOMAIN cs.set_chunks THEN << >>
    ELSE [i \in DOMAIN ord.chunks[path] |->
             <<ord.chunks[path][i], cs.set_chunks[path][ord.chunks[path][i]]>>]

\* the payload filter stopping at the first tombstone (map_while for filter_map)
RECURSIVE SomeChunksWhile(_, _)
SomeChunksWhile(node_id, entries) ==
    IF entries = << >> THEN << >>
    ELSE LET e == Head(entries)
         IN  IF IsSome(e[2])
             THEN <<ChunkInfo(node_id, e[1], Unwrap(e[2]))>> \o SomeChunksWhile(node_id, Tail(entries))
             ELSE << >>
\* filter_map(|(coords, payload)| payload.map(|p| ChunkInfo {node, coords, p}))
RECURSIVE SomeChunks(_, _)
SomeChunks(node_id, entries) ==
    IF entries = << >> THEN << >>
    ELSE LET e == Head(entries)
         IN  (IF IsSome(e[2]) THEN <<ChunkInfo(node_id, e[1], Unwrap(e[2]))>> ELSE << >>)
             \o SomeChunks(node_id, Tail(entries))

NewArraysChunkIterator(cs, ord) ==
    Flatten([i \in DOMAIN ord.arrays |->
                SomeChunks(cs.new_arrays[ord.arrays[i]].id,
                           ArrayChunksIterator(cs, ord.arrays[i], ord))])

\* ChangeSet::new_nodes: new_groups.keys().chain(new_arrays.keys())
CsNewNodes(cs, ord) == ord.groups \o ord.arrays

RECURSIVE UpdateExistingChunks(_, _, _)
UpdateExistingChunks(cs, path, chunks) ==
    IF chunks = << >> THEN << >>
    ELSE LET chunk == Head(chunks)
             entry == CsGetChunkRef(cs, path, chunk.coord)
         IN  (IF ~IsSome(entry) THEN <<chunk>>
              ELSE IF IsSome(Unwrap(entry))
                   THEN <<[chunk EXCEPT !.payload = Unwrap(Unwrap(entry))]>>
                   ELSE << >>)
             \o UpdateExistingChunks(cs, path, Tail(chunks))

RECURSIVE FilterNotIn(_, _)
FilterNotIn(chunks, indices) ==
    IF chunks = << >> THEN << >>
    ELSE (IF Head(chunks).coord \in indices THEN << >> ELSE <<Head(chunks)>>)
         \o FilterNotIn(Tail(chunks), indices)

\* the stream of one manifest reference of an existing array (lines 365-400)
ManifestRefChunks(st, cs, node, manifest_ref, ord) ==
    LET manifest == st.manifests[manifest_ref.object_id]
        entries == ArrayChunksIterator(cs, node.path, ord)
        new_chunk_indices == {entries[i][1] : i \in DOMAIN entries}
        new_chunks == SomeChunks(node.id, entries)
        old_chunks == FilterNotIn(ManifestIter(manifest, manifest_ref.location[1],
                                               manifest_ref.location[2]),
                                  new_chunk_indices)
    IN  new_chunks \o UpdateExistingChunks(cs, node.path, old_chunks)

NodeChunkIterator(st, cs, node, ord) ==
    IF node.node_data.kind = "Group" THEN << >>
    ELSE Flatten([i \in DOMAIN node.node_data.manifests |->
                     ManifestRefChunks(st, cs, node, node.node_data.manifests[i], ord)])

UpdatedChunkIterator(st, sid, cs, ord) ==
    IF ~IsSome(sid) THEN << >>
    ELSE LET structure == st.structures[Unwrap(sid)]
         IN  Flatten([i \in DOMAIN structure |-> NodeChunkIterator(st, cs, structure[i], ord)])

\* the storage reads of the chunk stream all succeed: the structure (line 341)
\* and every manifest an array of it refers to (lines 366-370) can be fetched
FlushReadsOk(st, sid, okStructure, okManifests) ==
    IF ~IsSome(sid) THEN TRUE
    ELSE /\ IsSome(FetchStructure(st, Unwrap(sid), okStructure))
         /\ LET structure == st.structures[Unwrap(sid)]
            IN  \A i \in DOMAIN structure :
                    structure[i].node_data.kind = "Array" =>
                        \A j \in DOMAIN structure[i].node_data.manifests :
                            IsSome(FetchManifests(st,
                                structure[i].node_data.manifests[j].object_id, okManifests))

AllChunks(st, sid, cs, ord) ==
    UpdatedChunkIterator(st, sid, cs, ord) \o NewArraysChunkIterator(cs, ord)

(***************************************************************************)
(* Flush: the nodes of the new structure table.                            *)
(***************************************************************************)
\* region.map(|r| if r.0 == r.1 { vec![] } else { vec![ManifestRef ...] })
NewManifests(manifest_id, region) ==
    IF ~IsSome(region) THEN None
    ELSE LET r == Unwrap(region)
         IN  Some(IF r[1] = r[2] THEN << >> ELSE <<ManifestRef(manifest_id, r[1], r[2])>>)

\* update_existing_node taking the attributes from the overlay alone
UpdateExistingNodeOverlayAtts(cs, node, new_manifests) ==
    LET new_atts == OverlayAtts(cs, node.path)
    IN  IF node.node_data.kind = "Group" THEN [node EXCEPT !.user_attributes = new_atts]
        ELSE LET new_zarr_meta ==
                     UnwrapOr(CsGetUpdatedZarrMetadata(cs, node.path), node.node_data.meta)
             IN  [node EXCEPT !.node_data = ArrayData(new_zarr_meta, UnwrapOr(new_manifests, << >>)),
                              !.user_attributes = new_atts]
UpdateExistingNode(cs, node, new_manifests) ==
    LET atts == CsGetUserAttributes(cs, node.path)
        session_atts ==
            IF IsSome(atts)
            THEN Some(IF IsSome(Unwrap(atts)) THEN Some(Inline(Unwrap(Unwrap(atts)))) ELSE None)
            ELSE None
        new_atts == UnwrapOr(session_atts, node.user_attributes)
    IN  IF node.node_data.kind = "Group" THEN [node EXCEPT !.user_attributes = new_atts]
        ELSE LET new_zarr_meta ==
                     UnwrapOr(CsGetUpdatedZarrMetadata(cs, node.path), node.node_data.meta)
             IN  [node EXCEPT !.node_data = ArrayData(new_zarr_meta, UnwrapOr(new_manifests, << >>)),
                              !.user_attributes = new_atts]

UpdatedExistingNodes(st, sid, cs, manifest_id, tracker) ==
    IF ~IsSome(sid) THEN << >>
    ELSE LET structure == st.structures[Unwrap(sid)]
         IN  [i \in DOMAIN structure |->
                 UpdateExistingNode(cs, structure[i],
                     NewManifests(manifest_id, TrackerRegion(tracker, structure[i].id)))]

NewNodes(cs, manifest_id, tracker, ord) ==
    LET paths == CsNewNodes(cs, ord)
    IN  [i \in DOMAIN paths |->
            LET node == Unwrap(GetNewNode(cs, paths[i]))
            IN  IF node.node_data.kind = "Group" THEN node
                ELSE [node EXCEPT !.node_data =
                        ArrayData(@.meta,
                            UnwrapOr(NewManifests(manifest_id, TrackerRegion(tracker, node.id)),
                                     << >>))]]

UpdatedNodes(st, sid, cs, manifest_id, tracker, ord) ==
    UpdatedExistingNodes(st, sid, cs, manifest_id, tracker)
        \o NewNodes(cs, manifest_id, tracker, ord)

(***************************************************************************)
(* Node id allocation.                                                     *)
(***************************************************************************)
ComputeLastNodeId(st, sid, ok) ==
    IF ~IsSome(sid) THEN 0
    ELSE LET structure == FetchStructure(st, Unwrap(sid), ok)
         IN  IF IsSome(structure) /\ Unwrap(structure) # << >>
             THEN Max({Unwrap(structure)[i].id : i \in DOMAIN Unwrap(structure)})
             ELSE 0
\* the id reserve_node_id returns; it also becomes the session's last_node_id
ReserveNodeId(st, sid, lnid, ok) == UnwrapOr(lnid, ComputeLastNodeId(st, sid, ok)) + 1

(***************************************************************************)
(* The state.  storage is shared by the sessions; the other variables are  *)
(* per session.  pc is where the session's owner is: "closed" (not yet     *)
(* constructed), "idle" (between calls), inside flush at the await of      *)
(* write_manifests or of write_structure, or "panicked".  inflight holds   *)
(* the locals of a suspended flush.  openedOn, issued, dropped and last    *)
(* are history variables: the structure id the session was constructed     *)
(* with, the ids reserve_node_id returned, whether a flush of the session  *)
(* was dropped by its caller, and the call that completed last.            *)
(***************************************************************************)
SeedStructureId == 1
SeedManifestA == 2
SeedManifestB == 3
\* a snapshot written by an earlier writer: the root group and the array /a,
\* whose chunks are spread over two manifest references
SeedStorage ==
    [structures |->
        SeedStructureId :>
            MkStructureTable(<<
                NodeStructure(1, "/", None, GroupData),
                NodeStructure(2, "/a", Some(Inline("foo")),
                    ArrayData("m0", <<ManifestRef(SeedManifestA, 0, 1),
                                      ManifestRef(SeedManifestB, 0, 2)>>))>>),
     manifests |->
        (SeedManifestA :> MkManifestsTable(<<ChunkInfo(2, 0, "p0")>>))
        @@ (SeedManifestB :> MkManifestsTable(<<ChunkInfo(2, 1, "p1"), ChunkInfo(2, 0, "q0")>>))]
\* the paths a read may ask for: those the calls address, and the seed's root group
AllPaths == Paths \cup {"/"}

NoFlight == [step |-> "none"]
Call(op, s, path, coord, arg, res, id, fault, pre) ==
    [op |-> op, s |-> s, path |-> path, coord |-> coord, arg |-> arg, res |-> res,
     id |-> id, fault |-> fault, pre |-> pre]
NoCall == Call("none", "", "", 0, None, "", 0, FALSE, None)
\* what the reads of session s answer from
SessionState(s) == [sid |-> structure_id[s], cs |-> change_set[s], st |-> storage]

Init ==
    /\ storage = SeedStorage
    /\ pc = [s \in Sessions |-> "closed"]
    /\ structure_id = [s \in Sessions |-> None]
    /\ last_node_id = [s \in Sessions |-> None]
    /\ change_set = [s \in Sessions |-> ChangeSetDefault]
    /\ inflight = [s \in Sessions |-> NoFlight]
    /\ openedOn = [s \in Sessions |-> None]
    /\ issued = [s \in Sessions |-> << >>]
    /\ dropped = [s \in Sessions |-> FALSE]
    /\ last = NoCall
    /\ nOps = 0
    /\ nFlush = 0
    /\ nFaults = 0

\* ObjectId::random(): an id no object of the storage and no suspended flush holds
ObjectIdRandom ==
    LET used == DOMAIN storage.structures \cup DOMAIN storage.manifests
                \cup {inflight[s].new_manifest_id :
                        s \in {t \in Sessions : inflight[t].step = "write_manifests"}}
                \cup {inflight[s].new_structure_id :
                        s \in {t \in Sessions : inflight[t].step = "write_structure"}}
    IN  CHOOSE id \in 1 .. Cardinality(used) + 1 :
            id \notin used /\ \A j \in 1 .. id - 1 : j \in used

\* Dataset::new: create passes None, update passes Some(id)
New(s, previous_version_structure_id) ==
    /\ pc[s] = "closed"
    /\ s = "B" => pc["A"] # "closed"
    /\ pc' = [pc EXCEPT ![s] = "idle"]
    /\ structure_id' = [structure_id EXCEPT ![s] = previous_version_structure_id]
    /\ last_node_id' = [last_node_id EXCEPT ![s] = None]
    /\ change_set' = [change_set EXCEPT ![s] = ChangeSetDefault]
    /\ openedOn' = [openedOn EXCEPT ![s] = previous_version_structure_id]
    /\ last' = Call("new", s, "", 0, None, "ok", 0, FALSE, None)
    /\ UNCHANGED <<storage, inflight, issued, dropped, nOps, nFlush, nFaults>>

Create(s) == New(s, None)

Update(s, id) == id \in DOMAIN storage.structures /\ New(s, Some(id))

\* a call on a session with a base reads the storage; the read fails when ~ok
Faulted(sid, ok) == IsSome(sid) /\ ~ok
\* the count of the disturbed calls
Fault(failed) ==
    /\ failed => nFaults < MaxFaults
    /\ nFaults' = IF failed THEN nFaults + 1 ELSE nFaults

\* add_group and add_array share their shape: the existence check, then the id
AddNode(s, op, path, arg, id, cs_added, okNode, okIds) ==
    /\ pc[s] = "idle"
    /\ nOps < MaxOps
    /\ nOps' = nOps + 1
    /\ LET sid == structure_id[s]
       IN  IF ~IsSome(GetNode(storage, sid, change_set[s], path, okNode))
           THEN /\ last_node_id' = [last_node_id EXCEPT ![s] = Some(id)]
                /\ change_set' = [change_set EXCEPT ![s] = cs_added]
                /\ issued' = [issued EXCEPT ![s] = Append(@, id)]
                /\ last' = Call(op, s, path, 0, arg, "ok", id,
                                Faulted(sid, okNode /\ okIds), None)
                /\ Fault(Faulted(sid, okNode /\ okIds))
           ELSE /\ last' = Call(op, s, path, 0, arg, "AlreadyExists", 0,
                                Faulted(sid, okNode), None)
                /\ Fault(Faulted(sid, okNode))
                /\ UNCHANGED <<last_node_id, change_set, issued>>
    /\ UNCHANGED <<storage, pc, structure_id, inflight, openedOn, dropped, nFlush>>

\* add_group without the existence check
AddGroupUnchecked(s, path, okNode, okIds) ==
    /\ pc[s] = "idle"
    /\ nOps < MaxOps
    /\ nOps' = nOps + 1
    /\ LET sid == structure_id[s]
           id == ReserveNodeId(storage, sid, last_node_id[s], okIds)
       IN  /\ last_node_id' = [last_node_id EXCEPT ![s] = Some(id)]
           /\ change_set' = [change_set EXCEPT ![s] = CsAddGroup(change_set[s], path, id)]
           /\ issued' = [issued EXCEPT ![s] = Append(@, id)]
           /\ last' = Call("add_group", s, path, 0, None, "ok", id, Faulted(sid, okIds), None)
           /\ Fault(Faulted(sid, okIds))
    /\ UNCHANGED <<storage, pc, structure_id, inflight, openedOn, dropped, nFlush>>
\* add_group reserving the id before the existence check
AddGroupReservingFirst(s, path, okNode, okIds) ==
    /\ pc[s] = "idle"
    /\ nOps < MaxOps
    /\ nOps' = nOps + 1
    /\ LET sid == structure_id[s]
           id == ReserveNodeId(storage, sid, last_node_id[s], okIds)
       IN  /\ last_node_id' = [last_node_id EXCEPT ![s] = Some(id)]
           /\ IF ~IsSome(GetNode(storage, sid, change_set[s], path, okNode))
              THEN /\ change_set' = [change_set EXCEPT ![s] = CsAddGroup(@, path, id)]
                   /\ issued' = [issued EXCEPT ![s] = Append(@, id)]
                   /\ last' = Call("add_group", s, path, 0, None, "ok", id,
                                   Faulted(sid, okNode /\ okIds), None)
              ELSE /\ last' = Call("add_group", s, path, 0, None, "AlreadyExists", 0,
                                   Faulted(sid, okNode /\ okIds), None)
                   /\ UNCHANGED <<change_set, issued>>
           /\ Fault(Faulted(sid, okNode /\ okIds))
    /\ UNCHANGED <<storage, pc, structure_id, inflight, openedOn, dropped, nFlush>>
AddGroup(s, path, okNode, okIds) ==
    LET id == ReserveNodeId(storage, structure_id[s], last_node_id[s], okIds)
    IN  AddNode(s, "add_group", path, None, id,
                CsAddGroup(change_set[s], path, id), okNode, okIds)

\* add_array writing the new array through to the storage: an empty manifest
\* table under a fresh id
AddArrayWritingThrough(s, path, metadata, okNode, okIds) ==
    /\ pc[s] = "idle"
    /\ nOps < MaxOps
    /\ nOps' = nOps + 1
    /\ LET sid == structure_id[s]
           id == ReserveNodeId(storage, sid, last_node_id[s], okIds)
       IN  IF ~IsSome(GetNode(storage, sid, change_set[s], path, okNode))
           THEN /\ last_node_id' = [last_node_id EXCEPT ![s] = Some(id)]
                /\ change_set' = [change_set EXCEPT ![s] = CsAddArray(@, path, id, metadata)]
                /\ storage' = WriteManifests(storage, ObjectIdRandom, MkManifestsTable(<< >>))
                /\ issued' = [issued EXCEPT ![s] = Append(@, id)]
                /\ last' = Call("add_array", s, path, 0, Some(metadata), "ok", id,
                                Faulted(sid, okNode /\ okIds), None)
                /\ Fault(Faulted(sid, okNode /\ okIds))
           ELSE /\ last' = Call("add_array", s, path, 0, Some(metadata), "AlreadyExists", 0,
                                Faulted(sid, okNode), None)
                /\ Fault(Faulted(sid, okNode))
                /\ UNCHANGED <<storage, last_node_id, change_set, issued>>
    /\ UNCHANGED <<pc, structure_id, inflight, openedOn, dropped, nFlush>>
AddArray(s, path, metadata, okNode, okIds) ==
    LET id == ReserveNodeId(storage, structure_id[s], last_node_id[s], okIds)
    IN  AddNode(s, "add_array", path, Some(metadata), id,
                CsAddArray(change_set[s], path, id, metadata), okNode, okIds)

\* the three update calls: res is the call's result, cs the change set it leaves
Updated(s, op, path, coord, arg, res, cs, ok) ==
    /\ pc[s] = "idle"
    /\ nOps < MaxOps
    /\ nOps' = nOps + 1
    /\ change_set' = [change_set EXCEPT ![s] = cs]
    /\ last' = Call(op, s, path, coord, arg, res, 0, Faulted(structure_id[s], ok), None)
    /\ Fault(Faulted(structure_id[s], ok))
    /\ UNCHANGED <<storage, pc, structure_id, last_node_id, inflight, openedOn, dropped,
                   issued, nFlush>>

UpdateArray(s, path, metadata, ok) ==
    LET node == GetNode(storage, structure_id[s], change_set[s], path, ok)
    IN  IF ~IsSome(node)
        THEN Updated(s, "update_array", path, 0, Some(metadata), "NotFound", change_set[s], ok)
        ELSE IF Unwrap(node).node_data.kind = "Array"
        THEN Updated(s, "update_array", path, 0, Some(metadata), "ok",
                     CsUpdateArray(change_set[s], path, metadata), ok)
        ELSE Updated(s, "update_array", path, 0, Some(metadata), "NotAnArray", change_set[s], ok)

SetUserAttributes(s, path, atts, ok) ==
    LET node == GetNode(storage, structure_id[s], change_set[s], path, ok)
    IN  IF ~IsSome(node)
        THEN Updated(s, "set_user_attributes", path, 0, atts, "NotFound", change_set[s], ok)
        ELSE Updated(s, "set_user_attributes", path, 0, atts, "ok",
                     CsUpdateUserAttributes(change_set[s], path, atts), ok)

\* set_chunk without the check that the node is an array
SetChunkOnAnyNode(s, path, coord, data, ok) ==
    LET node == GetNode(storage, structure_id[s], change_set[s], path, ok)
    IN  IF ~IsSome(node)
        THEN Updated(s, "set_chunk", path, coord, data, "NotFound", change_set[s], ok)
        ELSE Updated(s, "set_chunk", path, coord, data, "ok",
                     CsSetChunk(change_set[s], path, coord, data), ok)
SetChunk(s, path, coord, data, ok) ==
    LET node == GetNode(storage, structure_id[s], change_set[s], path, ok)
    IN  IF ~IsSome(node)
        THEN Updated(s, "set_chunk", path, coord, data, "NotFound", change_set[s], ok)
        ELSE IF Unwrap(node).node_data.kind = "Array"
        THEN Updated(s, "set_chunk", path, coord, data, "ok",
                     CsSetChunk(change_set[s], path, coord, data), ok)
        ELSE Updated(s, "set_chunk", path, coord, data, "NotAnArray", change_set[s], ok)

(***************************************************************************)
(* flush, one action per stretch between two of its awaits.                *)
(***************************************************************************)
\* lines 545-554: the chunk stream is built and drained into the new manifest
\* table; a failed read panics (the unwraps of lines 341 and 370)
FlushBegin(s, ord, okStructure, okManifests) ==
    /\ pc[s] = "idle"
    /\ nFlush < MaxFlush
    /\ nFlush' = nFlush + 1
    /\ ord \in HashOrders(change_set[s])
    /\ IF FlushReadsOk(storage, structure_id[s], okStructure, okManifests)
       THEN LET all_chunks == AllChunks(storage, structure_id[s], change_set[s], ord)
            IN  /\ inflight' = [inflight EXCEPT ![s] =
                        [step |-> "write_manifests",
                         ord |-> ord,
                         region_tracker |-> TrackAll(TrackerDefault, all_chunks),
                         new_manifest |-> MkManifestsTable(all_chunks),
                         new_manifest_id |-> ObjectIdRandom,
                         pre |-> SessionState(s)]]
                /\ pc' = [pc EXCEPT ![s] = "write_manifests"]
                /\ Fault(FALSE)
                /\ UNCHANGED last
       ELSE /\ pc' = [pc EXCEPT ![s] = "panicked"]
            /\ last' = Call("flush", s, "", 0, None, "panic", 0, TRUE, Some(SessionState(s)))
            /\ Fault(TRUE)
            /\ UNCHANGED inflight
    /\ UNCHANGED <<storage, structure_id, last_node_id, change_set, openedOn, dropped, issued, nOps>>

\* flush resetting the change set before the result of write_manifests is looked at
FlushWriteManifestsResetting(s, okWrite, okStructure) ==
    /\ pc[s] = "write_manifests"
    /\ LET f == inflight[s]
       IN  IF ~okWrite
           THEN /\ pc' = [pc EXCEPT ![s] = "idle"]
                /\ inflight' = [inflight EXCEPT ![s] = NoFlight]
                /\ last' = Call("flush", s, "", 0, None, "StorageError", 0, TRUE, Some(f.pre))
                /\ Fault(TRUE)
                /\ change_set' = [change_set EXCEPT ![s] = ChangeSetDefault]
                /\ UNCHANGED storage
           ELSE /\ storage' = WriteManifests(storage, f.new_manifest_id, f.new_manifest)
                /\ UNCHANGED change_set
                /\ IF IsSome(structure_id[s])
                      /\ ~IsSome(FetchStructure(storage, Unwrap(structure_id[s]), okStructure))
                   THEN /\ pc' = [pc EXCEPT ![s] = "panicked"]
                        /\ inflight' = [inflight EXCEPT ![s] = NoFlight]
                        /\ last' = Call("flush", s, "", 0, None, "panic", 0, TRUE, Some(f.pre))
                        /\ Fault(TRUE)
                   ELSE /\ pc' = [pc EXCEPT ![s] = "write_structure"]
                        /\ inflight' = [inflight EXCEPT ![s] =
                               [step |-> "write_structure",
                                new_structure |->
                                    MkStructureTable(
                                        UpdatedNodes(storage, structure_id[s], change_set[s],
                                                     f.new_manifest_id, f.region_tracker, f.ord)),
                                new_structure_id |-> ObjectIdRandom,
                                new_manifest_id |-> f.new_manifest_id,
                                pre |-> f.pre]]
                        /\ Fault(FALSE)
                        /\ UNCHANGED last
    /\ UNCHANGED <<structure_id, last_node_id, openedOn, dropped, issued, nOps, nFlush>>
\* lines 555-561: write_manifests returns; on Ok the nodes of the new structure
\* table are built (the structure is fetched again, line 436)
FlushWriteManifests(s, okWrite, okStructure) ==
    /\ pc[s] = "write_manifests"
    /\ LET f == inflight[s]
       IN  IF ~okWrite
           THEN /\ pc' = [pc EXCEPT ![s] = "idle"]
                /\ inflight' = [inflight EXCEPT ![s] = NoFlight]
                /\ last' = Call("flush", s, "", 0, None, "StorageError", 0, TRUE, Some(f.pre))
                /\ Fault(TRUE)
                /\ UNCHANGED storage
           ELSE /\ storage' = WriteManifests(storage, f.new_manifest_id, f.new_manifest)
                /\ IF IsSome(structure_id[s])
                      /\ ~IsSome(FetchStructure(storage, Unwrap(structure_id[s]), okStructure))
                   THEN /\ pc' = [pc EXCEPT ![s] = "panicked"]
                        /\ inflight' = [inflight EXCEPT ![s] = NoFlight]
                        /\ last' = Call("flush", s, "", 0, None, "panic", 0, TRUE, Some(f.pre))
                        /\ Fault(TRUE)
                   ELSE /\ pc' = [pc EXCEPT ![s] = "write_structure"]
                        /\ inflight' = [inflight EXCEPT ![s] =
                               [step |-> "write_structure",
                                new_structure |->
                                    MkStructureTable(
                                        UpdatedNodes(storage, structure_id[s], change_set[s],
                                                     f.new_manifest_id, f.region_tracker, f.ord)),
                                new_structure_id |-> ObjectIdRandom,
                                new_manifest_id |-> f.new_manifest_id,
                                pre |-> f.pre]]
                        /\ Fault(FALSE)
                        /\ UNCHANGED last
    /\ UNCHANGED <<structure_id, last_node_id, change_set, openedOn, dropped, issued, nOps, nFlush>>

\* flush writing the new structure table under the id the session was based on
FlushWriteStructureInPlace(s, okWrite) ==
    /\ pc[s] = "write_structure"
    /\ LET f == inflight[s]
           id == UnwrapOr(structure_id[s], f.new_structure_id)
       IN  IF okWrite
           THEN /\ storage' = WriteStructure(storage, id, f.new_structure)
                /\ structure_id' = [structure_id EXCEPT ![s] = Some(id)]
                /\ change_set' = [change_set EXCEPT ![s] = ChangeSetDefault]
                /\ last' = Call("flush", s, "", 0, None, "ok", id, FALSE, Some(f.pre))
                /\ Fault(FALSE)
           ELSE /\ last' = Call("flush", s, "", 0, None, "StorageError", 0, TRUE, Some(f.pre))
                /\ Fault(TRUE)
                /\ UNCHANGED <<storage, structure_id, change_set>>
    /\ pc' = [pc EXCEPT ![s] = "idle"]
    /\ inflight' = [inflight EXCEPT ![s] = NoFlight]
    /\ UNCHANGED <<last_node_id, openedOn, dropped, issued, nOps, nFlush>>
\* flush keeping the change set after the structure table is written
FlushWriteStructureKeepingChanges(s, okWrite) ==
    /\ pc[s] = "write_structure"
    /\ LET f == inflight[s]
       IN  IF okWrite
           THEN /\ storage' = WriteStructure(storage, f.new_structure_id, f.new_structure)
                /\ structure_id' = [structure_id EXCEPT ![s] = Some(f.new_structure_id)]
                /\ last' = Call("flush", s, "", 0, None, "ok", f.new_structure_id, FALSE,
                                Some(f.pre))
                /\ Fault(FALSE)
                /\ UNCHANGED change_set
           ELSE /\ last' = Call("flush", s, "", 0, None, "StorageError", 0, TRUE, Some(f.pre))
                /\ Fault(TRUE)
                /\ UNCHANGED <<storage, structure_id, change_set>>
    /\ pc' = [pc EXCEPT ![s] = "idle"]
    /\ inflight' = [inflight EXCEPT ![s] = NoFlight]
    /\ UNCHANGED <<last_node_id, openedOn, dropped, issued, nOps, nFlush>>
\* flush moving every session that is on the same snapshot to the new one
FlushWriteStructureMovingAll(s, okWrite) ==
    /\ pc[s] = "write_structure"
    /\ LET f == inflight[s]
       IN  IF okWrite
           THEN /\ storage' = WriteStructure(storage, f.new_structure_id, f.new_structure)
                /\ structure_id' =
                      [t \in Sessions |->
                          IF pc[t] # "closed" /\ structure_id[t] = structure_id[s]
                          THEN Some(f.new_structure_id)
                          ELSE structure_id[t]]
                /\ change_set' = [change_set EXCEPT ![s] = ChangeSetDefault]
                /\ last' = Call("flush", s, "", 0, None, "ok", f.new_structure_id, FALSE,
                                Some(f.pre))
                /\ Fault(FALSE)
           ELSE /\ last' = Call("flush", s, "", 0, None, "StorageError", 0, TRUE, Some(f.pre))
                /\ Fault(TRUE)
                /\ UNCHANGED <<storage, structure_id, change_set>>
    /\ pc' = [pc EXCEPT ![s] = "idle"]
    /\ inflight' = [inflight EXCEPT ![s] = NoFlight]
    /\ UNCHANGED <<last_node_id, openedOn, dropped, issued, nOps, nFlush>>
\* lines 562-568: write_structure returns; on Ok the session moves to the new snapshot
FlushWriteStructure(s, okWrite) ==
    /\ pc[s] = "write_structure"
    /\ LET f == inflight[s]
       IN  IF okWrite
           THEN /\ storage' = WriteStructure(storage, f.new_structure_id, f.new_structure)
                /\ structure_id' = [structure_id EXCEPT ![s] = Some(f.new_structure_id)]
                /\ change_set' = [change_set EXCEPT ![s] = ChangeSetDefault]
                /\ last' = Call("flush", s, "", 0, None, "ok", f.new_structure_id, FALSE,
                                Some(f.pre))
                /\ Fault(FALSE)
           ELSE /\ last' = Call("flush", s, "", 0, None, "StorageError", 0, TRUE, Some(f.pre))
                /\ Fault(TRUE)
                /\ UNCHANGED <<storage, structure_id, change_set>>
    /\ pc' = [pc EXCEPT ![s] = "idle"]
    /\ inflight' = [inflight EXCEPT ![s] = NoFlight]
    /\ UNCHANGED <<last_node_id, openedOn, dropped, issued, nOps, nFlush>>

\* the caller drops the flush future while it is suspended in a write: the write
\* in flight has reached the storage (written) or has not
FlushCancel(s, written) ==
    /\ pc[s] \in {"write_manifests", "write_structure"}
    /\ LET f == inflight[s]
       IN  /\ storage' =
                IF ~written THEN storage
                ELSE IF pc[s] = "write_manifests"
                     THEN WriteManifests(storage, f.new_manifest_id, f.new_manifest)
                     ELSE WriteStructure(storage, f.new_structure_id, f.new_structure)
           /\ last' = Call("flush", s, "", 0, None, "cancelled", 0, FALSE, Some(f.pre))
    /\ Fault(TRUE)
    /\ nFlush' = nFlush - 1
    /\ dropped' = [dropped EXCEPT ![s] = TRUE]
    /\ pc' = [pc EXCEPT ![s] = "idle"]
    /\ inflight' = [inflight EXCEPT ![s] = NoFlight]
    /\ UNCHANGED <<structure_id, last_node_id, change_set, openedOn, issued, nOps>>

\* the caller drops the flush future while it is suspended in a read of lines 546-553
FlushCancelReading(s) ==
    /\ pc[s] = "idle"
    /\ IsSome(structure_id[s])
    /\ last' = Call("flush", s, "", 0, None, "cancelled", 0, FALSE, Some(SessionState(s)))
    /\ Fault(TRUE)
    /\ dropped' = [dropped EXCEPT ![s] = TRUE]
    /\ UNCHANGED <<storage, pc, structure_id, last_node_id, change_set, inflight,
                   openedOn, issued, nOps, nFlush>>

\* the calls the owner of session s can make or resume, over a storage whose
\* operations may fail; the owner may also drop a suspended flush
Calls(s) ==
    \/ Create(s)
    \/ \E id \in DOMAIN storage.structures : Update(s, id)
    \/ \E path \in Paths, okNode, okIds \in BOOLEAN : AddGroup(s, path, okNode, okIds)
    \/ \E path \in Paths, metadata \in NewMetas, okNode, okIds \in BOOLEAN :
          AddArray(s, path, metadata, okNode, okIds)
    \/ \E path \in Paths, metadata \in NewMetas, ok \in BOOLEAN :
          UpdateArray(s, path, metadata, ok)
    \/ \E path \in Paths, atts \in {None} \cup {Some(a) : a \in NewAttrs}, ok \in BOOLEAN :
          SetUserAttributes(s, path, atts, ok)
    \/ \E path \in Paths, coord \in Coords,
          data \in {None} \cup {Some(x) : x \in NewPayloads}, ok \in BOOLEAN :
          SetChunk(s, path, coord, data, ok)
    \/ \E okStructure, okManifests \in BOOLEAN :
          \E ord \in HashOrders(change_set[s]) : FlushBegin(s, ord, okStructure, okManifests)
    \/ \E okWrite, okStructure \in BOOLEAN : FlushWriteManifests(s, okWrite, okStructure)
    \/ \E okWrite \in BOOLEAN : FlushWriteStructure(s, okWrite)
    \/ \E written \in BOOLEAN : FlushCancel(s, written)
    \/ FlushCancelReading(s)

\* one session
Next == Calls("A")

Spec == Init /\ [][Next]_vars

\* two sessions sharing a storage whose operations succeed, their calls
\* interleaved at every await: each adds nodes, writes chunks and flushes
CallsTwo(s) ==
    \/ Create(s)
    \/ \E id \in DOMAIN storage.structures : Update(s, id)
    \/ \E path \in Paths : AddGroup(s, path, TRUE, TRUE)
    \/ \E path \in Paths, metadata \in NewMetas : AddArray(s, path, metadata, TRUE, TRUE)
    \/ \E path \in Paths, coord \in Coords, x \in NewPayloads :
          SetChunk(s, path, coord, Some(x), TRUE)
    \/ \E ord \in HashOrders(change_set[s]) : FlushBegin(s, ord, TRUE, TRUE)
    \/ FlushWriteManifests(s, TRUE, TRUE)
    \/ FlushWriteStructure(s, TRUE)

NextTwo == \E s \in Sessions : CallsTwo(s)

SpecTwo == Init /\ [][NextTwo]_vars

(***************************************************************************)
(* What a reader sees.  The reads are pure functions of a storage, a       *)
(* structure id and a change set; the views below ask them for every path  *)
(* and coordinate, over a storage that answers.                            *)
(***************************************************************************)
NodeView(st, sid, cs) == [p \in AllPaths |-> GetNode(st, sid, cs, p, TRUE)]
ChunkView(st, sid, cs) ==
    [p \in AllPaths |-> [c \in Coords |-> GetChunkRef(st, sid, cs, p, c, TRUE)]]
\* a node without the manifest references of its array
WithoutManifests(node) ==
    IF IsSome(node) /\ Unwrap(node).node_data.kind = "Array"
    THEN Some([Unwrap(node) EXCEPT !.node_data = ArrayData(@.meta, << >>)])
    ELSE node
NodeViewWithoutManifests(st, sid, cs) ==
    [p \in AllPaths |-> WithoutManifests(GetNode(st, sid, cs, p, TRUE))]
\* the last call was a flush that returned Ok(last.id)
FlushedOk == last.op = "flush" /\ last.res = "ok"
\* the session state the last flush started from
Pre == Unwrap(last.pre)

\* C1: a session that flushed successfully and is read through the returned
\* structure id with an empty change set answers get_chunk_ref, for every path
\* and coordinate, as it did just before the flush; stated here for the runs in
\* which no storage operation failed and no call was dropped.
C1_RoundTripChunks ==
    (FlushedOk /\ nFaults = 0) =>
        ChunkView(storage, Some(last.id), ChangeSetDefault) = ChunkView(Pre.st, Pre.sid, Pre.cs)

\* C2: after a successful flush, get_node through the returned structure id with
\* an empty change set returns, for every path, the node it returned just before
\* the flush; stated here up to the manifest references of arrays.
C2_RoundTripNodes ==
    FlushedOk =>
        NodeViewWithoutManifests(storage, Some(last.id), ChangeSetDefault)
            = NodeViewWithoutManifests(Pre.st, Pre.sid, Pre.cs)

\* C3: right after set_chunk(p, c, data) succeeds, get_chunk_ref(p, c) returns
\* data flattened (Some(x) for a payload, None for a tombstone); and as long as
\* the change set holds an entry for (p, c) of an array, that entry is what
\* get_chunk_ref returns, whatever the base manifests hold.
C3_SetChunkShadowsBase ==
    /\ (last.op = "set_chunk" /\ last.res = "ok") =>
            GetChunkRef(storage, structure_id[last.s], change_set[last.s],
                        last.path, last.coord, TRUE) = last.arg
    /\ \A s \in Sessions, p \in Paths, c \in Coords :
            LET entry == CsGetChunkRef(change_set[s], p, c)
                node == GetNode(storage, structure_id[s], change_set[s], p, TRUE)
            IN  (IsSome(entry) /\ IsSome(node) /\ Unwrap(node).node_data.kind = "Array") =>
                    GetChunkRef(storage, structure_id[s], change_set[s], p, c, TRUE)
                        = Unwrap(entry)
\* a tombstone was just written over a chunk the base manifests hold
C3_TombstoneOverBaseChunk ==
    /\ last.op = "set_chunk" /\ last.res = "ok" /\ last.arg = None
    /\ IsSome(GetChunkRef(storage, structure_id[last.s], ChangeSetDefault,
                           last.path, last.coord, TRUE))

\* C4: no step of any session changes what a structure id already in the
\* storage answers, with an empty change set, to get_node and get_chunk_ref for
\* any path and coordinate; every object a flush writes goes under an id the
\* storage did not hold, and no stored object is overwritten or removed.
C4_PriorSnapshotsImmutable ==
    [][/\ \A id \in DOMAIN storage.structures :
            /\ id \in DOMAIN storage'.structures
            /\ storage'.structures[id] = storage.structures[id]
            /\ NodeView(storage', Some(id), ChangeSetDefault)
                    = NodeView(storage, Some(id), ChangeSetDefault)
            /\ ChunkView(storage', Some(id), ChangeSetDefault)
                    = ChunkView(storage, Some(id), ChangeSetDefault)
       /\ \A id \in DOMAIN storage.manifests :
            /\ id \in DOMAIN storage'.manifests
            /\ storage'.manifests[id] = storage.manifests[id]]_vars
\* a flush has just returned while another session had already flushed
C4_FlushAfterAnotherSessionsFlush ==
    /\ FlushedOk
    /\ \E t \in Sessions \ {last.s} : pc[t] # "closed" /\ structure_id[t] # openedOn[t]

\* C5: the step in which flush returns Ok(sid) leaves the change set of the
\* session empty and its structure_id equal to Some(sid), and sid is an id the
\* storage did not hold before, now naming the structure table the flush built.
C5_FlushCommits ==
    [][\A s \in Sessions :
          (pc[s] = "write_structure" /\ pc'[s] = "idle" /\ last'.res = "ok") =>
              /\ change_set'[s] = ChangeSetDefault
              /\ structure_id'[s] = Some(last'.id)
              /\ last'.id \notin DOMAIN storage.structures
              /\ last'.id \in DOMAIN storage'.structures
              /\ storage'.structures[last'.id] = inflight[s].new_structure]_vars
\* a flush of a session with a base snapshot and staged changes returned Ok
C5_CommittedStagedChanges ==
    FlushedOk /\ IsSome(Pre.sid) /\ Pre.cs # ChangeSetDefault

\* C6: when write_manifests or write_structure fails, flush returns
\* FlushError::StorageError and the session is as before the call: same
\* structure_id, same change set, and get_node and get_chunk_ref answer as before.
C6_FailedWriteLeavesSession ==
    (last.op = "flush" /\ last.res = "StorageError") =>
        /\ pc[last.s] # "panicked"
        /\ structure_id[last.s] = Pre.sid
        /\ change_set[last.s] = Pre.cs
        /\ NodeView(storage, structure_id[last.s], change_set[last.s])
                = NodeView(Pre.st, Pre.sid, Pre.cs)
        /\ ChunkView(storage, structure_id[last.s], change_set[last.s])
                = ChunkView(Pre.st, Pre.sid, Pre.cs)
\* write_structure failed after the manifest table of staged changes was written
C6_StructureWriteFailed ==
    /\ last.op = "flush" /\ last.res = "StorageError"
    /\ Pre.cs # ChangeSetDefault
    /\ storage # Pre.st

\* C7: a flush during which a storage operation fails, a read as well as a
\* write, returns FlushError::StorageError and does not crash.
C7_StorageErrorsReturned ==
    /\ (last.op = "flush" /\ last.fault) => last.res = "StorageError"
    /\ \A s \in Sessions : pc[s] # "panicked"

\* C8: a flush dropped by its caller leaves structure_id and the change set of
\* the session as they were, and a later flush of that session that returns Ok
\* produces a snapshot holding every staged change: read through the returned
\* id with an empty change set, get_chunk_ref and get_node (up to the manifest
\* references) answer as just before that flush.
C8_DroppedFlushLosesNothing ==
    /\ (last.op = "flush" /\ last.res = "cancelled") =>
            structure_id[last.s] = Pre.sid /\ change_set[last.s] = Pre.cs
    /\ (FlushedOk /\ dropped[last.s]) =>
            /\ ChunkView(storage, Some(last.id), ChangeSetDefault)
                    = ChunkView(Pre.st, Pre.sid, Pre.cs)
            /\ NodeViewWithoutManifests(storage, Some(last.id), ChangeSetDefault)
                    = NodeViewWithoutManifests(Pre.st, Pre.sid, Pre.cs)

\* the node ids of the snapshot a structure id names
NodeIds(st, sid) ==
    IF IsSome(sid) THEN {st.structures[Unwrap(sid)][i].id : i \in DOMAIN st.structures[Unwrap(sid)]}
    ELSE {}
\* C9: the ids reserve_node_id hands out in a session are strictly increasing,
\* flushes in between included, and each is greater than every node id of the
\* snapshot the session is based on.
C9_NodeIdsIncrease ==
    /\ \A s \in Sessions :
          /\ \A i, j \in DOMAIN issued[s] : i < j => issued[s][i] < issued[s][j]
          /\ \A i \in DOMAIN issued[s], id \in NodeIds(storage, openedOn[s]) : id < issued[s][i]
    /\ (last.op \in {"add_group", "add_array"} /\ last.res = "ok") =>
            \A id \in NodeIds(storage, structure_id[last.s]) \ {last.id} : id < last.id

\* the path resolves in the overlay of new nodes
InOverlay(cs, path) == IsSome(GetNewNode(cs, path))
\* C10: after add_group(p) returns Ok, get_node(p) returns a Group node whose id
\* is the one reserve_node_id returned last; and add_group or add_array on a path
\* that get_node resolves, from the overlay or from the base snapshot, returns
\* AlreadyExists and changes nothing, so a second add_group(p) fails.
C10_AddGroupThenGetNode ==
    [][\A s \in Sessions :
          (pc[s] = "idle" /\ nOps' = nOps + 1 /\ last'.s = s
           /\ last'.op \in {"add_group", "add_array"}) =>
              /\ (last'.op = "add_group" /\ last'.res = "ok") =>
                    LET node == GetNode(storage', structure_id'[s], change_set'[s],
                                        last'.path, TRUE)
                    IN  /\ IsSome(node)
                        /\ Unwrap(node).node_data.kind = "Group"
                        /\ Unwrap(node).id = last'.id
                        /\ last_node_id'[s] = Some(last'.id)
              /\ (\/ InOverlay(change_set[s], last'.path)
                  \/ /\ ~last'.fault
                     /\ IsSome(GetNode(storage, structure_id[s], change_set[s],
                                        last'.path, TRUE))) =>
                    /\ last'.res = "AlreadyExists"
                    /\ change_set'[s] = change_set[s]
                    /\ last_node_id'[s] = last_node_id[s]]_vars
\* add_group was called a second time on a path it had added, and failed
C10_SecondAddGroupFailed ==
    /\ last.op = "add_group" /\ last.res = "AlreadyExists"
    /\ IsSome(GetNewGroup(change_set[last.s], last.path))

\* C11: after add_array(p, m) returns Ok, get_node(p) returns an Array node with
\* the id just reserved, metadata m and no manifest reference; and as long as the
\* change set holds the new array, get_node(p) returns an Array node without
\* manifest references, whatever chunks were set on p.
C11_NewArrayNode ==
    /\ (last.op = "add_array" /\ last.res = "ok") =>
            GetNode(storage, structure_id[last.s], change_set[last.s], last.path, TRUE)
                = Some(NodeStructure(last.id, last.path,
                                     OverlayAtts(change_set[last.s], last.path),
                                     ArrayData(Unwrap(last.arg), << >>)))
    /\ \A s \in Sessions, p \in Paths :
            IsSome(CsGetArray(change_set[s], p)) =>
                LET node == GetNode(storage, structure_id[s], change_set[s], p, TRUE)
                IN  /\ IsSome(node)
                    /\ Unwrap(node).node_data.kind = "Array"
                    /\ Unwrap(node).node_data.manifests = << >>
                    /\ Unwrap(node).id = Unwrap(CsGetArray(change_set[s], p)).id

\* the step is a call of one of ops on session s
CallOf(s, ops) ==
    pc[s] = "idle" /\ nOps' = nOps + 1 /\ last'.s = s /\ last'.op \in ops
\* C12: update_array and set_chunk return NotFound when get_node does not resolve
\* the path, NotAnArray when it resolves to a group, and Ok otherwise;
\* set_user_attributes returns NotFound when the path does not resolve and Ok on
\* groups and arrays alike.
C12_UpdateErrors ==
    [][\A s \in Sessions :
          CallOf(s, {"update_array", "set_chunk", "set_user_attributes"}) =>
              LET node == GetNode(storage, structure_id[s], change_set[s],
                                  last'.path, ~last'.fault)
              IN  last'.res =
                    IF ~IsSome(node) THEN "NotFound"
                    ELSE IF /\ last'.op # "set_user_attributes"
                            /\ Unwrap(node).node_data.kind = "Group"
                         THEN "NotAnArray"
                         ELSE "ok"]_vars
\* set_chunk was refused on a group of the base snapshot
C12_NotAnArrayOnBaseGroup ==
    /\ last.op = "set_chunk" /\ last.res = "NotAnArray"
    /\ ~InOverlay(change_set[last.s], last.path)

\* C13: a successful update_array(p, m) changes, in what get_node(p) returns,
\* the metadata to m and nothing else: id, path, user attributes and manifest
\* references are those returned before the call.
C13_UpdateArrayFrame ==
    [][\A s \in Sessions :
          (CallOf(s, {"update_array"}) /\ last'.res = "ok") =>
              LET before == GetNode(storage, structure_id[s], change_set[s],
                                    last'.path, TRUE)
                  after == GetNode(storage', structure_id'[s], change_set'[s],
                                   last'.path, TRUE)
              IN  /\ IsSome(before)
                  /\ after = Some([Unwrap(before) EXCEPT !.node_data =
                                     ArrayData(Unwrap(last'.arg), @.manifests)])]_vars
\* update_array succeeded on an array of the base snapshot that has attributes
\* and manifest references
C13_UpdatedBaseArray ==
    /\ last.op = "update_array" /\ last.res = "ok"
    /\ ~InOverlay(change_set[last.s], last.path)
    /\ LET node == Unwrap(GetNode(storage, structure_id[last.s], change_set[last.s],
                                  last.path, TRUE))
       IN  IsSome(node.user_attributes) /\ node.node_data.manifests # << >>

\* the attributes get_node shows for an overlay entry: None, or Some(Inline(a))
ShownAtts(atts) == IF IsSome(atts) THEN Some(Inline(Unwrap(atts))) ELSE None
\* C14: after set_user_attributes(p, atts) returns Ok, get_node(p) has
\* user_attributes None when atts is None and Some(Inline(a)) when atts is
\* Some(a); and every path that resolves and has an entry in the overlay of
\* attributes shows that entry, so the last call wins.
C14_UserAttributesShown ==
    /\ (last.op = "set_user_attributes" /\ last.res = "ok") =>
            LET node == GetNode(storage, structure_id[last.s], change_set[last.s],
                                last.path, TRUE)
            IN  IsSome(node) /\ Unwrap(node).user_attributes = ShownAtts(last.arg)
    /\ \A s \in Sessions, p \in Paths :
            LET entry == CsGetUserAttributes(change_set[s], p)
                node == GetNode(storage, structure_id[s], change_set[s], p, TRUE)
            IN  (IsSome(entry) /\ IsSome(node)) =>
                    Unwrap(node).user_attributes = ShownAtts(Unwrap(entry))
\* the attributes of a node of the base snapshot were just set to None
C14_BaseAttributesRemoved ==
    /\ last.op = "set_user_attributes" /\ last.res = "ok" /\ last.arg = None
    /\ ~InOverlay(change_set[last.s], last.path)
    /\ IsSome(Unwrap(GetNode(storage, structure_id[last.s], ChangeSetDefault,
                              last.path, TRUE)).user_attributes)

\* a snapshot with two arrays, each with one chunk in its own region of one
\* manifest table
SeedTwoArrays ==
    [structures |->
        (SeedStructureId :> MkStructureTable(<<
            NodeStructure(1, "/a", None,
                ArrayData("m0", <<ManifestRef(SeedManifestA, 0, 1)>>)),
            NodeStructure(2, "/c", None,
                ArrayData("m0", <<ManifestRef(SeedManifestA, 1, 2)>>))>>)),
     manifests |->
        (SeedManifestA :> MkManifestsTable(<<ChunkInfo(1, 0, "p0"), ChunkInfo(2, 0, "r0")>>))]

InitTwoArrays ==
    /\ storage = SeedTwoArrays
    /\ pc = [s \in Sessions |-> "closed"]
    /\ structure_id = [s \in Sessions |-> None]
    /\ last_node_id = [s \in Sessions |-> None]
    /\ change_set = [s \in Sessions |-> ChangeSetDefault]
    /\ inflight = [s \in Sessions |-> NoFlight]
    /\ openedOn = [s \in Sessions |-> None]
    /\ issued = [s \in Sessions |-> << >>]
    /\ dropped = [s \in Sessions |-> FALSE]
    /\ last = NoCall
    /\ nOps = 0
    /\ nFlush = 0
    /\ nFaults = 0

\* one session opened on that snapshot adds arrays, writes chunks and flushes;
\* the reads of add_array may fail
NextTwoArrays ==
    \/ Update("A", SeedStructureId)
    \/ \E path \in Paths, metadata \in NewMetas, okNode, okIds \in BOOLEAN :
          AddArray("A", path, metadata, okNode, okIds)
    \/ \E path \in Paths, coord \in Coords, x \in NewPayloads :
          SetChunk("A", path, coord, Some(x), TRUE)
    \/ \E ord \in HashOrders(change_set["A"]) : FlushBegin("A", ord, TRUE, TRUE)
    \/ FlushWriteManifests("A", TRUE, TRUE)
    \/ FlushWriteStructure("A", TRUE)

SpecTwoArrays == InitTwoArrays /\ [][NextTwoArrays]_vars

\* the sessions whose flush has built its manifest table and structure table
Built == {s \in Sessions : pc[s] = "write_structure"}
\* the manifest table the flush of session s wrote
BuiltManifest(s) == storage.manifests[inflight[s].new_manifest_id]
\* the row numbers (0-based) of a manifest table whose node field is id
RowsOf(table, id) == {k \in 0 .. Len(table) - 1 : table[k + 1].node = id}
\* C15: in the manifest table a flush produces, the rows of every array node of
\* the new structure table are exactly the rows start .. end - 1 of the region
\* its ManifestRef records; an array without a ManifestRef has no row.
C15_RegionContiguity ==
    \A s \in Built :
        \A i \in DOMAIN inflight[s].new_structure :
            LET node == inflight[s].new_structure[i]
                refs == node.node_data.manifests
            IN  node.node_data.kind = "Array" =>
                    IF refs = << >> THEN RowsOf(BuiltManifest(s), node.id) = {}
                    ELSE /\ Len(refs) = 1
                         /\ refs[1].object_id = inflight[s].new_manifest_id
                         /\ RowsOf(BuiltManifest(s), node.id)
                                = refs[1].location[1] .. refs[1].location[2] - 1
\* C16: in the manifest table a flush writes, no two rows share (node, coord);
\* stated here for rows that are equal in payload too, in the runs in which no
\* storage operation failed and no call was dropped.
C16_NoDuplicateRows ==
    \A s \in Built :
        nFaults = 0 =>
            \A i, j \in DOMAIN BuiltManifest(s) :
                i # j => BuiltManifest(s)[i] # BuiltManifest(s)[j]

\* C17: in the structure table a flush produces, paths are unique, node ids
\* are unique and the nodes are in ascending id order; stated here for the runs
\* in which no storage operation failed and no call was dropped.
C17_StructureTableSorted ==
    \A s \in Built :
        nFaults = 0 =>
            \A i, j \in DOMAIN inflight[s].new_structure :
                i < j => /\ inflight[s].new_structure[i].path # inflight[s].new_structure[j].path
                         /\ inflight[s].new_structure[i].id < inflight[s].new_structure[j].id

\* the last call was a flush of an empty change set that returned Ok
FlushedNothing == FlushedOk /\ Pre.cs = ChangeSetDefault
\* C18 as worded: after a flush of an empty change set, get_node and
\* get_chunk_ref through the returned structure id answer, for every path and
\* coordinate, exactly as through the base snapshot.
C18_EmptyFlushSameAnswers ==
    FlushedNothing =>
        /\ NodeView(storage, Some(last.id), ChangeSetDefault)
                = NodeView(Pre.st, Pre.sid, ChangeSetDefault)
        /\ ChunkView(storage, Some(last.id), ChangeSetDefault)
                = ChunkView(Pre.st, Pre.sid, ChangeSetDefault)
\* C18 amended: after a flush of an empty change set, get_chunk_ref through the
\* returned structure id answers as through the base snapshot, and get_node
\* returns the same node up to the manifest references of arrays.
C18_EmptyFlushSameUpToManifests ==
    FlushedNothing =>
        /\ NodeViewWithoutManifests(storage, Some(last.id), ChangeSetDefault)
                = NodeViewWithoutManifests(Pre.st, Pre.sid, ChangeSetDefault)
        /\ ChunkView(storage, Some(last.id), ChangeSetDefault)
                = ChunkView(Pre.st, Pre.sid, ChangeSetDefault)
\* an empty change set was flushed on the seeded snapshot, whose array has
\* attributes and chunks
C18_EmptyFlushOnSeed ==
    FlushedNothing /\ Pre.sid = Some(SeedStructureId)

(***************************************************************************)
(* A ChangeSet on its own, built by its methods as the test of             *)
(* new_arrays_chunk_iterator builds it: arrays are added under fresh ids,   *)
(* chunks and tombstones are set on any path, and the iterator is run in    *)
(* one of the orders the HashMaps can take.                                 *)
(***************************************************************************)
ChangeSetCall(cs) ==
    /\ change_set' = [change_set EXCEPT !["A"] = cs]
    /\ last' = Call("change_set", "A", "", 0, None, "ok", 0, FALSE, None)
    /\ UNCHANGED <<storage, pc, structure_id, last_node_id, inflight, openedOn, dropped,
                   issued, nOps, nFlush, nFaults>>

ChangeSetAddArray(path, metadata) ==
    /\ path \notin DOMAIN change_set["A"].new_arrays
    /\ ChangeSetCall(CsAddArray(change_set["A"], path,
                                Cardinality(DOMAIN change_set["A"].new_arrays) + 1, metadata))

ChangeSetSetChunk(path, coord, data) ==
    ChangeSetCall(CsSetChunk(change_set["A"], path, coord, data))

\* the chunks the iterator yields, in order, are kept in last.arg
ChangeSetNewArraysChunks(ord) ==
    /\ last' = Call("new_arrays_chunk_iterator", "A", "", 0,
                    NewArraysChunkIterator(change_set["A"], ord), "ok", 0, FALSE, None)
    /\ UNCHANGED <<storage, pc, structure_id, last_node_id, change_set, inflight, openedOn,
                   dropped, issued, nOps, nFlush, nFaults>>

NextChangeSet ==
    \/ \E path \in Paths, metadata \in NewMetas : ChangeSetAddArray(path, metadata)
    \/ \E path \in Paths, coord \in Coords,
          data \in {None} \cup {Some(x) : x \in NewPayloads} :
          ChangeSetSetChunk(path, coord, data)
    \/ \E ord \in HashOrders(change_set["A"]) : ChangeSetNewArraysChunks(ord)

SpecChangeSet == Init /\ [][NextChangeSet]_vars

\* the chunks set on new arrays with a payload, under the id of their array
NewArrayChunks(cs) ==
    {ChunkInfo(cs.new_arrays[p].id, c, Unwrap(cs.set_chunks[p][c])) :
        <<p, c>> \in {pc2 \in (DOMAIN cs.new_arrays \cap DOMAIN cs.set_chunks) \X Coords :
                        /\ pc2[2] \in DOMAIN cs.set_chunks[pc2[1]]
                        /\ IsSome(cs.set_chunks[pc2[1]][pc2[2]])}}
\* C19: new_arrays_chunk_iterator yields, each once, exactly the chunks set with
\* a payload on the paths of new_arrays, each under the node id of its array;
\* it yields no tombstone and no chunk of a path that is not a new array.
C19_NewArraysChunks ==
    last.op = "new_arrays_chunk_iterator" =>
        /\ Range(last.arg) = NewArrayChunks(change_set["A"])
        /\ \A i, j \in DOMAIN last.arg : i # j => last.arg[i] # last.arg[j]
\* the iterator ran on a change set holding a chunk and a tombstone of a new
\* array and a chunk of a path that is no new array, and yielded something
C19_MixedChangeSet ==
    /\ last.op = "new_arrays_chunk_iterator" /\ last.arg # << >>
    /\ \E p \in DOMAIN change_set["A"].new_arrays \cap DOMAIN change_set["A"].set_chunks :
          \E c \in DOMAIN change_set["A"].set_chunks[p] :
              ~IsSome(change_set["A"].set_chunks[p][c])
    /\ \E p \in DOMAIN change_set["A"].set_chunks \ DOMAIN change_set["A"].new_arrays :
          \E c \in DOMAIN change_set["A"].set_chunks[p] :
              IsSome(change_set["A"].set_chunks[p][c])

\* C20: a call of add_group, add_array, update_array, set_user_attributes or
\* set_chunk, whether it returns Ok or an error, leaves the contents of the
\* storage and the structure_id of the session as they were.
C20_MutationsInMemory ==
    [][\A s \in Sessions :
          CallOf(s, {"add_group", "add_array", "update_array", "set_user_attributes",
                     "set_chunk"}) =>
              storage' = storage /\ structure_id' = structure_id]_vars
\* a session with a base snapshot holds staged nodes and chunks, and its last
\* call was a mutation that failed
C20_StagedAndRefused ==
    /\ last.op \in {"add_group", "add_array", "update_array", "set_user_attributes",
                     "set_chunk"}
    /\ last.res # "ok"
    /\ IsSome(structure_id[last.s])
    /\ change_set[last.s] # ChangeSetDefault

\* the paths of the arrays of the snapshot a structure id names
BaseArrayPaths(st, sid) ==
    IF ~IsSome(sid) THEN {}
    ELSE {st.structures[Unwrap(sid)][i].path :
            i \in {k \in DOMAIN st.structures[Unwrap(sid)] :
                     st.structures[Unwrap(sid)][k].node_data.kind = "Array"}}
\* C21: every key of updated_arrays is the path of an array of the base
\* snapshot and never the path of an array created in the session; stated here
\* for the runs in which no storage operation failed and no call was dropped.
C21_UpdatedArraysAreBaseArrays ==
    \A s \in Sessions :
        nFaults = 0 =>
            \A p \in DOMAIN change_set[s].updated_arrays :
                /\ p \in BaseArrayPaths(storage, structure_id[s])
                /\ p \notin DOMAIN change_set[s].new_arrays


\* the nodes of the snapshot the flush of session s started from
BaseNodes(s) ==
    IF IsSome(inflight[s].pre.sid)
    THEN Range(inflight[s].pre.st.structures[Unwrap(inflight[s].pre.sid)])
    ELSE {}
\* the row numbers (0-based) the manifest references of a node cover
RegionRows(node) ==
    UNION {node.node_data.manifests[i].location[1]
              .. node.node_data.manifests[i].location[2] - 1 :
           i \in DOMAIN node.node_data.manifests}
\* C22: for every array of the base snapshot, whatever the number of its
\* manifest references, and every chunk staged on it with a payload, the
\* manifest table the flush writes holds the row (id of the array, coord,
\* payload) inside the region the new structure table records for the array;
\* stated here for the runs in which no storage operation failed and no call
\* was dropped.
C22_OverlayChunksOfBaseArraysWritten ==
    \A s \in Built :
        nFaults = 0 =>
            \A base \in BaseNodes(s) :
                base.node_data.kind = "Array" =>
                    \A c \in Coords :
                        LET entry == CsGetChunkRef(inflight[s].pre.cs, base.path, c)
                        IN  (IsSome(entry) /\ IsSome(Unwrap(entry))) =>
                                \E i \in DOMAIN inflight[s].new_structure :
                                    /\ inflight[s].new_structure[i].id = base.id
                                    /\ \E k \in RegionRows(inflight[s].new_structure[i]) :
                                          /\ k + 1 \in DOMAIN BuiltManifest(s)
                                          /\ BuiltManifest(s)[k + 1]
                                                = ChunkInfo(base.id, c, Unwrap(Unwrap(entry)))


\* the rows of the regions the manifest references of a node of the base cover
BaseRows(s, node) ==
    UNION {Range(ManifestIter(inflight[s].pre.st.manifests[node.node_data.manifests[i].object_id],
                              node.node_data.manifests[i].location[1],
                              node.node_data.manifests[i].location[2])) :
           i \in DOMAIN node.node_data.manifests}
\* C23: for each row of the manifest regions of an array of the base snapshot,
\* the manifest table the flush writes holds the row unchanged when the overlay
\* has no entry at (path, coord); holds (node, coord) with the payload of the
\* overlay, and not with the old one, when the overlay has Some(payload); and
\* holds no row for (node, coord) when the overlay has a tombstone.
C23_OldRowsCarriedReplacedDropped ==
    \A s \in Built :
        \A base \in BaseNodes(s) :
            base.node_data.kind = "Array" =>
                \A row \in BaseRows(s, base) :
                    LET entry == CsGetChunkRef(inflight[s].pre.cs, base.path, row.coord)
                        new == Range(BuiltManifest(s))
                    IN  IF ~IsSome(entry) THEN row \in new
                        ELSE IF IsSome(Unwrap(entry))
                        THEN /\ ChunkInfo(row.node, row.coord, Unwrap(Unwrap(entry))) \in new
                             /\ row.payload # Unwrap(Unwrap(entry)) => row \notin new
                        ELSE \A r \in new : ~(r.node = row.node /\ r.coord = row.coord)


\* the minimum of a non-empty finite set of naturals
Min(S) == CHOOSE m \in S : \A x \in S : m <= x
\* C24: in the structure table a flush builds, an array node, carried over or
\* new, for whose node id the flush emitted at least one chunk has exactly one
\* ManifestRef: it points at the manifest table this flush wrote, which the
\* storage did not hold before, and its (start, end) runs from the first row of
\* that id to one past the last, with start < end; an array node for whose id
\* no chunk was emitted has an empty manifest list; a group node has no manifest.
C24_OneManifestRefPerArray ==
    \A s \in Built :
        /\ inflight[s].new_manifest_id \notin DOMAIN inflight[s].pre.st.manifests
        /\ \A i \in DOMAIN inflight[s].new_structure :
              LET node == inflight[s].new_structure[i]
                  rows == RowsOf(BuiltManifest(s), node.id)
              IN  IF node.node_data.kind = "Array"
                  THEN IF rows = {} THEN node.node_data.manifests = << >>
                       ELSE /\ node.node_data.manifests
                                  = <<ManifestRef(inflight[s].new_manifest_id,
                                                  Min(rows), Max(rows) + 1)>>
                            /\ Min(rows) < Max(rows) + 1
                  ELSE node.node_data = GroupData
\* a flush rebuilt an array of the base snapshot that referred to two older
\* manifests and has several chunks, next to a new array without chunks
C24_BaseArrayNextToEmptyNewArray ==
    \E s \in Built :
        /\ \E base \in BaseNodes(s) :
              /\ base.node_data.kind = "Array"
              /\ Len(base.node_data.manifests) = 2
              /\ Cardinality(RowsOf(BuiltManifest(s), base.id)) > 1
        /\ \E p \in DOMAIN inflight[s].pre.cs.new_arrays :
              RowsOf(BuiltManifest(s), inflight[s].pre.cs.new_arrays[p].id) = {}


\* the manifest references, by position, whose row range holds the coordinates
RefsHolding(st, manifests, coords) ==
    {i \in DOMAIN manifests :
        \E row \in Range(ManifestIter(st.manifests[manifests[i].object_id],
                                      manifests[i].location[1], manifests[i].location[2])) :
            row.coord = coords}
\* C25: when the overlay has no entry for (path, coord) of an array,
\* get_chunk_ref returns the payload found in the first, in listed order, of the
\* array's manifest references whose row range holds coord, and None exactly
\* when no reference holds coord; read over a storage that answers.
C25_FirstReferenceWins ==
    \A s \in Sessions, p \in AllPaths, c \in Coords :
        LET node == GetNode(storage, structure_id[s], change_set[s], p, TRUE)
        IN  (/\ IsSome(node)
             /\ Unwrap(node).node_data.kind = "Array"
             /\ ~IsSome(CsGetChunkRef(change_set[s], p, c))) =>
                LET refs == Unwrap(node).node_data.manifests
                    hits == RefsHolding(storage, refs, c)
                IN  GetChunkRef(storage, structure_id[s], change_set[s], p, c, TRUE) =
                        IF hits = {} THEN None
                        ELSE Some(Unwrap(ManifestGetChunkInfo(
                                      storage.manifests[refs[Min(hits)].object_id], c,
                                      refs[Min(hits)].location)).payload)
\* a session whose overlay holds chunks of an array reads a coordinate the
\* overlay has no entry for and that two manifest references of the array hold
\* with different payloads
C25_TwoReferencesHoldCoord ==
    \E s \in Sessions, p \in Paths, c \in Coords :
        LET node == GetNode(storage, structure_id[s], change_set[s], p, TRUE)
        IN  /\ IsSome(node)
            /\ Unwrap(node).node_data.kind = "Array"
            /\ p \in DOMAIN change_set[s].set_chunks
            /\ ~IsSome(CsGetChunkRef(change_set[s], p, c))
            /\ LET refs == Unwrap(node).node_data.manifests
               IN  /\ Cardinality(RefsHolding(storage, refs, c)) = 2
                   /\ GetOldChunk(storage, <<refs[1]>>, c, TRUE)
                          # GetOldChunk(storage, <<refs[2]>>, c, TRUE)


(***************************************************************************)
(* The mutation methods await at their reads: get_node, and for the adds   *)
(* the fetch of compute_last_node_id inside reserve_node_id.  Below a call *)
(* is one action per stretch between awaits, and its caller may drop the   *)
(* future at either await.  The storage answers.                           *)
(***************************************************************************)
Mutations == {"add_group", "add_array", "update_array", "set_user_attributes", "set_chunk"}
\* what a mutation reads and writes
CallState(s) ==
    [sid |-> structure_id[s], cs |-> change_set[s], st |-> storage, lnid |-> last_node_id[s]]

\* the call is made: it runs up to the await inside get_node
MutationBegin(s, op, path, coord, arg) ==
    /\ pc[s] = "idle"
    /\ nOps < MaxOps
    /\ nOps' = nOps + 1
    /\ pc' = [pc EXCEPT ![s] = "get_node"]
    /\ inflight' = [inflight EXCEPT ![s] =
          [step |-> "get_node", op |-> op, path |-> path, coord |-> coord, arg |-> arg,
           pre |-> CallState(s)]]
    /\ UNCHANGED <<storage, structure_id, last_node_id, change_set, openedOn, issued,
                   dropped, last, nFlush, nFaults>>

\* get_node returns and the id is reserved before compute_last_node_id is awaited
AddGotNodeReservingEarly(s) ==
    /\ pc[s] = "get_node"
    /\ inflight[s].op \in {"add_group", "add_array"}
    /\ LET f == inflight[s]
       IN  IF ~IsSome(GetNode(storage, structure_id[s], change_set[s], f.path, TRUE))
           THEN /\ pc' = [pc EXCEPT ![s] = "reserve_node_id"]
                /\ inflight' = [inflight EXCEPT ![s].step = "reserve_node_id"]
                /\ last_node_id' = [last_node_id EXCEPT ![s] = Some(UnwrapOr(@, 0) + 1)]
                /\ UNCHANGED last
           ELSE /\ pc' = [pc EXCEPT ![s] = "idle"]
                /\ inflight' = [inflight EXCEPT ![s] = NoFlight]
                /\ last' = Call(f.op, s, f.path, f.coord, f.arg, "AlreadyExists", 0, FALSE,
                                Some(f.pre))
                /\ UNCHANGED last_node_id
    /\ UNCHANGED <<storage, structure_id, change_set, openedOn, issued,
                   dropped, nOps, nFlush, nFaults>>
\* add_group, add_array: get_node returns; the call goes on to the await of
\* reserve_node_id or returns AlreadyExists
AddGotNode(s) ==
    /\ pc[s] = "get_node"
    /\ inflight[s].op \in {"add_group", "add_array"}
    /\ LET f == inflight[s]
       IN  IF ~IsSome(GetNode(storage, structure_id[s], change_set[s], f.path, TRUE))
           THEN /\ pc' = [pc EXCEPT ![s] = "reserve_node_id"]
                /\ inflight' = [inflight EXCEPT ![s].step = "reserve_node_id"]
                /\ UNCHANGED last
           ELSE /\ pc' = [pc EXCEPT ![s] = "idle"]
                /\ inflight' = [inflight EXCEPT ![s] = NoFlight]
                /\ last' = Call(f.op, s, f.path, f.coord, f.arg, "AlreadyExists", 0, FALSE,
                                Some(f.pre))
    /\ UNCHANGED <<storage, structure_id, last_node_id, change_set, openedOn, issued,
                   dropped, nOps, nFlush, nFaults>>

\* add_group, add_array: compute_last_node_id returns; the id is assigned and
\* the node enters the change set
AddReserved(s) ==
    /\ pc[s] = "reserve_node_id"
    /\ LET f == inflight[s]
           id == ReserveNodeId(storage, structure_id[s], last_node_id[s], TRUE)
       IN  /\ last_node_id' = [last_node_id EXCEPT ![s] = Some(id)]
           /\ change_set' = [change_set EXCEPT ![s] =
                  IF f.op = "add_group" THEN CsAddGroup(@, f.path, id)
                  ELSE CsAddArray(@, f.path, id, Unwrap(f.arg))]
           /\ issued' = [issued EXCEPT ![s] = Append(@, id)]
           /\ last' = Call(f.op, s, f.path, f.coord, f.arg, "ok", id, FALSE, Some(f.pre))
    /\ pc' = [pc EXCEPT ![s] = "idle"]
    /\ inflight' = [inflight EXCEPT ![s] = NoFlight]
    /\ UNCHANGED <<storage, structure_id, openedOn, dropped, nOps, nFlush, nFaults>>

\* update_array, set_user_attributes, set_chunk: get_node returns and the call
\* runs to its end
UpdateGotNode(s) ==
    /\ pc[s] = "get_node"
    /\ inflight[s].op \in {"update_array", "set_user_attributes", "set_chunk"}
    /\ LET f == inflight[s]
           node == GetNode(storage, structure_id[s], change_set[s], f.path, TRUE)
           res == IF ~IsSome(node) THEN "NotFound"
                  ELSE IF f.op # "set_user_attributes" /\ Unwrap(node).node_data.kind # "Array"
                       THEN "NotAnArray"
                       ELSE "ok"
       IN  /\ change_set' = [change_set EXCEPT ![s] =
                  IF res # "ok" THEN @
                  ELSE IF f.op = "update_array" THEN CsUpdateArray(@, f.path, Unwrap(f.arg))
                  ELSE IF f.op = "set_user_attributes"
                       THEN CsUpdateUserAttributes(@, f.path, f.arg)
                       ELSE CsSetChunk(@, f.path, f.coord, f.arg)]
           /\ last' = Call(f.op, s, f.path, f.coord, f.arg, res, 0, FALSE, Some(f.pre))
    /\ pc' = [pc EXCEPT ![s] = "idle"]
    /\ inflight' = [inflight EXCEPT ![s] = NoFlight]
    /\ UNCHANGED <<storage, structure_id, last_node_id, openedOn, issued, dropped,
                   nOps, nFlush, nFaults>>

\* the caller drops the future of a mutation suspended at one of its awaits
MutationCancel(s) ==
    /\ pc[s] \in {"get_node", "reserve_node_id"}
    /\ pc' = [pc EXCEPT ![s] = "idle"]
    /\ inflight' = [inflight EXCEPT ![s] = NoFlight]
    /\ last' = Call(inflight[s].op, s, inflight[s].path, inflight[s].coord, inflight[s].arg,
                    "cancelled", 0, FALSE, Some(inflight[s].pre))
    /\ Fault(TRUE)
    /\ nOps' = nOps - 1
    /\ UNCHANGED <<storage, structure_id, last_node_id, change_set, openedOn, issued,
                   dropped, nFlush>>

NextCancel ==
    \/ Create("A")
    \/ Update("A", SeedStructureId)
    \/ \E path \in Paths : MutationBegin("A", "add_group", path, 0, None)
    \/ \E path \in Paths, metadata \in NewMetas :
          MutationBegin("A", "add_array", path, 0, Some(metadata))
    \/ \E path \in Paths, metadata \in NewMetas :
          MutationBegin("A", "update_array", path, 0, Some(metadata))
    \/ \E path \in Paths, atts \in {None} \cup {Some(a) : a \in NewAttrs} :
          MutationBegin("A", "set_user_attributes", path, 0, atts)
    \/ \E path \in Paths, coord \in Coords, data \in {None} \cup {Some(x) : x \in NewPayloads} :
          MutationBegin("A", "set_chunk", path, coord, data)
    \/ AddGotNode("A")
    \/ AddReserved("A")
    \/ UpdateGotNode("A")
    \/ MutationCancel("A")

SpecCancel == Init /\ [][NextCancel]_vars

\* the result, the id and the session state a mutation that is not disturbed
\* leaves when it is called in the state cst
MutationOutcome(cst, op, path, coord, arg) ==
    LET node == GetNode(cst.st, cst.sid, cst.cs, path, TRUE)
        id == ReserveNodeId(cst.st, cst.sid, cst.lnid, TRUE)
        isArray == IsSome(node) /\ Unwrap(node).node_data.kind = "Array"
    IN  IF op \in {"add_group", "add_array"}
        THEN IF IsSome(node) THEN [res |-> "AlreadyExists", id |-> 0, state |-> cst]
             ELSE [res |-> "ok", id |-> id,
                   state |-> [cst EXCEPT !.lnid = Some(id),
                                         !.cs = IF op = "add_group"
                                                THEN CsAddGroup(@, path, id)
                                                ELSE CsAddArray(@, path, id, Unwrap(arg))]]
        ELSE IF ~IsSome(node) THEN [res |-> "NotFound", id |-> 0, state |-> cst]
        ELSE IF op = "set_user_attributes"
        THEN [res |-> "ok", id |-> 0,
              state |-> [cst EXCEPT !.cs = CsUpdateUserAttributes(@, path, arg)]]
        ELSE IF ~isArray THEN [res |-> "NotAnArray", id |-> 0, state |-> cst]
        ELSE [res |-> "ok", id |-> 0,
              state |-> [cst EXCEPT !.cs = IF op = "update_array"
                                           THEN CsUpdateArray(@, path, Unwrap(arg))
                                           ELSE CsSetChunk(@, path, coord, arg)]]

\* C26: a mutation dropped at the await of get_node or of reserve_node_id
\* leaves the change set, last_node_id, structure_id and the storage as they
\* were when it was called; and the same call made again right after returns
\* the result and the id, and leaves the session state, that the call gives in
\* the state before the dropped call.
C26_CancelledMutationLeavesNoTrace ==
    [][\A s \in Sessions :
          /\ (pc[s] \in {"get_node", "reserve_node_id"} /\ last'.res = "cancelled") =>
                CallState(s)' = inflight[s].pre
          /\ (/\ last.res = "cancelled" /\ last.s = s /\ last.op \in Mutations
              /\ pc[s] \in {"get_node", "reserve_node_id"} /\ pc'[s] = "idle"
              /\ last'.res # "cancelled"
              /\ <<last'.op, last'.path, last'.coord, last'.arg>>
                    = <<last.op, last.path, last.coord, last.arg>>) =>
                LET out == MutationOutcome(Unwrap(last.pre), last.op, last.path,
                                           last.coord, last.arg)
                IN  /\ last'.res = out.res
                    /\ last'.id = out.id
                    /\ CallState(s)' = out.state]_vars
\* an add on a session with a base snapshot was dropped, and the same call,
\* made again, has passed get_node and is suspended in reserve_node_id
C26_RetryUnderWay ==
    /\ pc["A"] = "reserve_node_id"
    /\ IsSome(structure_id["A"])
    /\ last.res = "cancelled"
    /\ <<last.op, last.path, last.arg>>
          = <<inflight["A"].op, inflight["A"].path, inflight["A"].arg>>


\* two sessions sharing a storage whose reads may fail while a node is added
CallsTwoUnreliable(s) ==
    \/ Create(s)
    \/ \E id \in DOMAIN storage.structures : Update(s, id)
    \/ \E path \in Paths, okNode, okIds \in BOOLEAN : AddGroup(s, path, okNode, okIds)
    \/ \E path \in Paths, metadata \in NewMetas, okNode, okIds \in BOOLEAN :
          AddArray(s, path, metadata, okNode, okIds)
    \/ \E ord \in HashOrders(change_set[s]) : FlushBegin(s, ord, TRUE, TRUE)
    \/ FlushWriteManifests(s, TRUE, TRUE)
    \/ FlushWriteStructure(s, TRUE)

NextTwoUnreliable == \E s \in Sessions : CallsTwoUnreliable(s)

SpecTwoUnreliable == Init /\ [][NextTwoUnreliable]_vars

\* the paths of the nodes of a structure table, of a snapshot, and of the
\* nodes a change set adds
PathsOf(table) == {table[i].path : i \in DOMAIN table}
SnapshotPaths(st, sid) == IF IsSome(sid) THEN PathsOf(st.structures[Unwrap(sid)]) ELSE {}
NewPaths(cs) == DOMAIN cs.new_groups \cup DOMAIN cs.new_arrays
\* session s has flushed since it was opened
HasFlushed(s) == pc[s] # "closed" /\ structure_id[s] # openedOn[s]
\* the nodes of session t, flushed or staged, that are neither in the base of
\* the flush of session s nor among the nodes s adds
NodesOnlyOf(t, s) ==
    ((SnapshotPaths(storage, structure_id[t]) \ SnapshotPaths(storage, openedOn[t]))
        \cup NewPaths(change_set[t]))
    \ (SnapshotPaths(inflight[s].pre.st, inflight[s].pre.sid) \cup NewPaths(inflight[s].pre.cs))
\* C27: two sessions opened on the same base snapshot get the same id for their
\* first successful add, the greatest id of the base plus one, or 1 without a
\* base; once both have flushed, their structure ids differ; and the structure
\* table a flush builds holds the nodes of the session's own base and change
\* set and no node that only the other session added.
C27_NoCoordinationAcrossSessions ==
    \A s, t \in Sessions :
        (s # t /\ pc[s] # "closed" /\ pc[t] # "closed" /\ openedOn[s] = openedOn[t]) =>
            /\ (issued[s] # << >> /\ issued[t] # << >>) =>
                  /\ issued[s][1] = issued[t][1]
                  /\ issued[s][1] = IF IsSome(openedOn[s])
                                    THEN Max(NodeIds(storage, openedOn[s])) + 1
                                    ELSE 1
            /\ (HasFlushed(s) /\ HasFlushed(t)) => structure_id[s] # structure_id[t]
            /\ s \in Built =>
                  /\ PathsOf(inflight[s].new_structure)
                        = SnapshotPaths(inflight[s].pre.st, inflight[s].pre.sid)
                            \cup NewPaths(inflight[s].pre.cs)
                  /\ PathsOf(inflight[s].new_structure) \cap NodesOnlyOf(t, s) = {}


\* the step is not one of session t: t stays where it is and completes no call
StepOfAnother(t) == pc'[t] = pc[t] /\ ~(nOps' = nOps + 1 /\ last'.s = t)
\* C28: a step of one session, a mutation or any stretch of its flush, changes
\* neither the structure_id nor the change set of another session, nor what
\* get_node and get_chunk_ref of that session return for any path and coordinate.
C28_SessionIsolation ==
    [][\A t \in Sessions :
          (pc[t] # "closed" /\ StepOfAnother(t)) =>
              /\ structure_id'[t] = structure_id[t]
              /\ change_set'[t] = change_set[t]
              /\ NodeView(storage', structure_id'[t], change_set'[t])
                    = NodeView(storage, structure_id[t], change_set[t])
              /\ ChunkView(storage', structure_id'[t], change_set'[t])
                    = ChunkView(storage, structure_id[t], change_set[t])]_vars
\* a session has just flushed nodes or chunks while another session, opened on
\* the same snapshot, holds staged changes of its own
C28_FlushedBesideStagedSession ==
    /\ FlushedOk /\ Pre.cs # ChangeSetDefault
    /\ \E t \in Sessions \ {last.s} :
          /\ pc[t] # "closed"
          /\ structure_id[t] = Pre.sid
          /\ change_set[t] # ChangeSetDefault
\* C29: a mutation that returns AlreadyExists, NotFound or NotAnArray leaves the
\* change set, structure_id and last_node_id of the session, and the storage,
\* as they were before the call and reserves no id; so an add that succeeds
\* right after it receives the id reserve_node_id gives in the state before
\* the failed call.
C29_FailedMutationLeavesSession ==
    [][\A s \in Sessions :
          /\ (CallOf(s, Mutations) /\ last'.res \in {"AlreadyExists", "NotFound", "NotAnArray"}) =>
                /\ CallState(s)' = CallState(s)
                /\ issued'[s] = issued[s]
          /\ (/\ CallOf(s, {"add_group", "add_array"}) /\ last'.res = "ok"
              /\ last.s = s /\ last.res \in {"AlreadyExists", "NotFound", "NotAnArray"}) =>
                /\ issued'[s] = Append(issued[s], last'.id)
                /\ \/ last'.id = ReserveNodeId(storage, structure_id[s], last_node_id[s], TRUE)
                   \/ /\ last'.fault
                      /\ last'.id = ReserveNodeId(storage, structure_id[s], last_node_id[s],
                                                  FALSE)]_vars
\* on a session with a base snapshot a mutation failed, and the add made right
\* after it succeeded: two calls were made, no flush, and the change set holds
\* the added node and nothing else
C29_AddAfterFailedCall ==
    /\ last.op \in {"add_group", "add_array"} /\ last.res = "ok"
    /\ nOps = 2 /\ nFlush = 0
    /\ IsSome(structure_id[last.s])
    /\ NewPaths(change_set[last.s]) = {last.path}
    /\ change_set[last.s].updated_arrays = EmptyMap
    /\ change_set[last.s].updated_attributes = EmptyMap
    /\ change_set[last.s].set_chunks = EmptyMap


\* C30: whatever reads fail, an add_group or add_array that returns Ok on a
\* session with a base snapshot assigns an id greater than every node id of
\* that snapshot.
C30_IdAboveBaseDespiteFailedRead ==
    (/\ last.op \in {"add_group", "add_array"} /\ last.res = "ok"
     /\ IsSome(structure_id[last.s])) =>
        \A id \in NodeIds(storage, structure_id[last.s]) : id < last.id

====
